---- MODULE Spec2Model ----
(***************************************************************************)
(* A model of eleventy-multisite's library (src/lib.ts): findSites, the    *)
(* site discovery; matchSiteConfig, the per-site configuration resolver;   *)
(* runEleventy, the launcher of the external generator.                    *)
(*                                                                         *)
(* Strings are sequences of one-character strings, a path is a sequence of *)
(* segment names, so that path.relative, String.startsWith and glob        *)
(* matching are computed the way the libraries compute them.               *)
(***************************************************************************)
EXTENDS Integers, Sequences, FiniteSets, TLC

VARIABLES
    \* findSites
    fsDirs,        \* the directories that exist (paths from the working directory)
    fsFiles,       \* the plain files that exist
    gitignore,     \* None, or Some(the set of names ./.gitignore ignores)
    config,        \* the Config record (baseDir, outDir, includesDir, layoutsDir, excludes)
    patterns,      \* findSites' argument
    findPc,        \* "idle" | "returned"
    results,       \* findSites' return value
    resultBases,   \* the candidate `base` each element of results was pushed from
    \* matchSiteConfig
    sites,         \* config.sites, the ordered SiteSpecs
    resolved,      \* site -> None, or Some(what matchSiteConfig returned for it)
    \* runEleventy
    options,       \* the RunOptions record
    pc,            \* the position of the invocation
    calls,         \* the calls made on the generator, the config module and the logger, in order
    ctorConfigPath,\* the configPath option given to the constructor
    watched,       \* the local `watched` of the init continuation
    initState,     \* the promise of eleventy.init()
    watchState,    \* the promise of eleventy.watch()
    writeState,    \* the promise of eleventy.write()
    unhandled,     \* the rejections and throws no handler of the chain received
    thrown         \* TRUE when runEleventy itself threw to its caller

findVars == <<fsDirs, fsFiles, gitignore, config, patterns, findPc, results, resultBases>>
matchVars == <<sites, resolved>>
runVars == <<options, pc, calls, ctorConfigPath, watched, initState, watchState, writeState,
             unhandled, thrown>>
vars == <<fsDirs, fsFiles, gitignore, config, patterns, findPc, results, resultBases,
          sites, resolved, options, pc, calls, ctorConfigPath, watched, initState, watchState,
          writeState, unhandled, thrown>>

----------------------------------------------------------------------------
(* Values *)

\* An optional value (a property that may be undefined, a file that may not
\* exist) is the empty set or a singleton.
None == {}
Some(x) == {x}
Get(o) == CHOOSE x \in o : TRUE

\* The path segments ".." and "**", and the characters of "/".
DotDot == <<".", ".">>
GlobStar == <<"*", "*">>
Slash == "/"

----------------------------------------------------------------------------
(* Strings and paths *)

\* String.prototype.startsWith.
StartsWith(str, prefix) ==
    /\ Len(str) >= Len(prefix)
    /\ SubSeq(str, 1, Len(prefix)) = prefix

\* String.prototype.endsWith('/') of a pattern: the pattern keeps its segments
\* and whether it ends with the separator.
EndsWithSlash(pattern) == pattern.slash

\* p is a prefix of q (q is p or lies under p).
IsPrefix(p, q) ==
    /\ Len(p) <= Len(q)
    /\ SubSeq(q, 1, Len(p)) = p

\* path.normalize of a segment list: "a/../b" is "b", a leading ".." stays.
RECURSIVE NormalizeFrom(_, _)
NormalizeFrom(done, rest) ==
    IF rest = <<>> THEN done
    ELSE IF Head(rest) = DotDot /\ done # <<>> /\ done[Len(done)] # DotDot
         THEN NormalizeFrom(SubSeq(done, 1, Len(done) - 1), Tail(rest))
         ELSE NormalizeFrom(Append(done, Head(rest)), Tail(rest))

Normalize(p) == NormalizeFrom(<<>>, p)

\* path.join(a, b).
Join(a, b) == Normalize(a \o b)

\* The length of the longest common prefix of two paths.
RECURSIVE CommonLen(_, _)
CommonLen(p, q) ==
    IF p = <<>> \/ q = <<>> \/ Head(p) # Head(q) THEN 0
    ELSE 1 + CommonLen(Tail(p), Tail(q))

\* path.relative(from, to), both resolved against the working directory: one
\* ".." per segment of `from` below the common ancestor, then the rest of `to`.
Relative(from, to) ==
    LET f == Normalize(from)
        t == Normalize(to)
        n == CommonLen(f, t)
    IN  [i \in 1..(Len(f) - n) |-> DotDot] \o SubSeq(t, n + 1, Len(t))

\* The string of a path: its segments joined by "/".
RECURSIVE PathString(_)
PathString(p) ==
    IF p = <<>> THEN <<>>
    ELSE IF Len(p) = 1 THEN Head(p)
    ELSE Head(p) \o <<Slash>> \o PathString(Tail(p))

----------------------------------------------------------------------------
(* Glob matching (minimatch, which glob uses too) *)

\* A pattern segment against a name: "*" is any run of characters, "?" one
\* character, anything else itself.
RECURSIVE WildMatch(_, _)
WildMatch(p, s) ==
    IF p = <<>> THEN s = <<>>
    ELSE IF Head(p) = "*"
         THEN WildMatch(Tail(p), s) \/ (s # <<>> /\ WildMatch(p, Tail(s)))
    ELSE IF Head(p) = "?"
         THEN s # <<>> /\ WildMatch(Tail(p), Tail(s))
    ELSE s # <<>> /\ Head(s) = Head(p) /\ WildMatch(Tail(p), Tail(s))

\* One segment: a name that starts with "." is matched only by a pattern
\* segment that starts with "." (the option dot is not set).
SegMatch(p, s) ==
    /\ s # <<>>
    /\ (Head(s) = "." => (p # <<>> /\ Head(p) = "."))
    /\ WildMatch(p, s)

\* A pattern (segments) against a path (segments); "**" is any number of
\* segments, none starting with ".".
RECURSIVE GlobMatch(_, _)
GlobMatch(pat, path) ==
    IF pat = <<>> THEN path = <<>>
    ELSE IF Head(pat) = GlobStar
         THEN \/ GlobMatch(Tail(pat), path)
              \/ (path # <<>> /\ Head(Head(path)) # "." /\ GlobMatch(pat, Tail(path)))
    ELSE path # <<>> /\ SegMatch(Head(pat), Head(path)) /\ GlobMatch(Tail(pat), Tail(path))

\* minimatch(site, glob).
minimatch(site, glob) == GlobMatch(glob, site)

----------------------------------------------------------------------------
(* findSites: the inputs *)

nS == <<"s">>
nO == <<"o">>
nI == <<"i">>
nA == <<"a">>
nF == <<"f">>
nDotsA == <<".", ".", "a">>
Star == <<"*">>
DotStar == <<".", "*">>

\* Every path the model's filesystems may hold, in the order glob returns
\* matches (sorted by name).
Enumeration ==
    << <<nS>>, <<nS, nA>>, <<nS, nF>>, <<nS, nI>>, <<nS, nI, nA>>,
       <<nS, nO>>, <<nS, nO, nDotsA>>, <<nS, nO, nA>> >>

\* The directories a filesystem is drawn from (a directory brings its
\* ancestors), and the plain file every filesystem of the model holds.
DirChoices == { <<nS, nA>>, <<nS, nI, nA>>, <<nS, nO, nDotsA>>, <<nS, nO, nA>> }
FileChoices == { <<nS, nF>> }

Ancestors(p) == { SubSeq(p, 1, n) : n \in 1..Len(p) }
Closure(dirs) == UNION { Ancestors(d) : d \in dirs }

\* The patterns findSites is called with: "**", "a/", "o/.*".
PatternChoices ==
    { [segs |-> <<GlobStar>>, slash |-> FALSE],
      [segs |-> <<nA>>, slash |-> TRUE],
      [segs |-> <<nO, DotStar>>, slash |-> FALSE] }

\* The longest pattern list the model calls findSites with.
MaxPatterns == 2

SeqsUpTo(S, n) == UNION { [1..k -> S] : k \in 0..n }

ConfigChoices ==
    [ baseDir : { <<nS>> },
      outDir : { <<nO>>, <<nS, nO>> },
      includesDir : { None, Some(<<nS, nI>>) },
      layoutsDir : { None, Some(<<nS, nA>>) },
      excludes : { None, Some({<<nS, nI, nA>>}) } ]

----------------------------------------------------------------------------
(* findSites *)

\* ignore().add(content): a path is ignored when one of its segments is a
\* name the file lists.
Ignored(rules, path) == \E i \in 1..Len(path) : path[i] \in rules

\* The ignoreFilter of findSites: the .gitignore filter when the file exists,
\* the identity otherwise.
ignoreFilter(paths) ==
    IF gitignore = None THEN paths
    ELSE LET keep(p) == ~Ignored(Get(gitignore), p) IN SelectSeq(paths, keep)

\* globSync(pattern, { ignore }): the entries that match the pattern and none
\* of the ignore patterns, directories only when the pattern ends with "/".
globSync(pattern, ignore) ==
    LET exists(p) == p \in fsDirs \/ (~pattern.slash /\ p \in fsFiles)
        ignored(p) == ignore # None /\ \E g \in Get(ignore) : GlobMatch(g, p)
        hit(p) == exists(p) /\ GlobMatch(pattern.segs, p) /\ ~ignored(p)
    IN  SelectSeq(Enumeration, hit)

\* The pattern as the loop of findSites rewrites it: "/" appended when it is
\* missing, then joined to config.baseDir.
NormalizePattern(cfg, pattern) ==
    LET slashed == IF ~EndsWithSlash(pattern) THEN [pattern EXCEPT !.slash = TRUE] ELSE pattern
    IN  [slashed EXCEPT !.segs = Join(cfg.baseDir, slashed.segs)]

\* !relative(dir, base).startsWith('..')
NotOutside(dir, base) == ~StartsWith(PathString(Relative(dir, base)), DotDot)

\* The condition of the `continue` of findSites.
Filtered(cfg, base) ==
    \/ NotOutside(cfg.outDir, base)
    \/ (cfg.includesDir # None /\ NotOutside(Get(cfg.includesDir), base))
    \/ (cfg.layoutsDir # None /\ NotOutside(Get(cfg.layoutsDir), base))

\* A push that skips a site the results already hold.
PushResultOnce(acc, cfg, base) ==
    IF \E i \in 1..Len(acc.bases) : acc.bases[i] = base THEN acc
    ELSE [results |-> Append(acc.results, Relative(cfg.baseDir, base)),
          bases |-> Append(acc.bases, base)]

\* results.push(relative(config.baseDir, base)), with the base it came from.
PushResult(acc, cfg, base) ==
    [results |-> Append(acc.results, Relative(cfg.baseDir, base)),
     bases |-> Append(acc.bases, base)]

\* The inner loop of findSites over one pattern's matches.
RECURSIVE InnerLoop(_, _, _)
InnerLoop(acc, cfg, bases) ==
    IF bases = <<>> THEN acc
    ELSE IF Filtered(cfg, Head(bases)) THEN InnerLoop(acc, cfg, Tail(bases))
    ELSE InnerLoop(PushResult(acc, cfg, Head(bases)), cfg, Tail(bases))

\* ignoreFilter(globSync(pattern, { ignore: config.excludes })) of one pattern.
Candidates(cfg, pattern) ==
    ignoreFilter(globSync(NormalizePattern(cfg, pattern), cfg.excludes))

\* The outer loop of findSites over the patterns.
RECURSIVE OuterLoop(_, _, _)
OuterLoop(acc, cfg, pats) ==
    IF pats = <<>> THEN acc
    ELSE OuterLoop(InnerLoop(acc, cfg, Candidates(cfg, Head(pats))), cfg, Tail(pats))

\* findSites(config, patterns): the results, and the base of each.
findSites(cfg, pats) == OuterLoop([results |-> <<>>, bases |-> <<>>], cfg, pats)

\* A call of findSites.
FindSites ==
    /\ findPc = "idle"
    /\ LET r == findSites(config, patterns)
       IN  /\ results' = r.results
           /\ resultBases' = r.bases
    /\ findPc' = "returned"
    /\ UNCHANGED <<fsDirs, fsFiles, gitignore, config, patterns>>
    /\ UNCHANGED <<matchVars, runVars>>

FindInit ==
    /\ fsDirs \in { Closure(d) : d \in SUBSET DirChoices }
    /\ fsFiles = FileChoices
    /\ gitignore \in { None, Some({nA}) }
    /\ config \in ConfigChoices
    /\ patterns \in SeqsUpTo(PatternChoices, MaxPatterns)
    /\ findPc = "idle"
    /\ results = <<>>
    /\ resultBases = <<>>

FindIdle ==
    /\ fsDirs = {}
    /\ fsFiles = {}
    /\ gitignore = None
    /\ config = [baseDir |-> <<nS>>, outDir |-> <<nO>>, includesDir |-> None,
                 layoutsDir |-> None, excludes |-> None]
    /\ patterns = <<>>
    /\ findPc = "off"
    /\ results = <<>>
    /\ resultBases = <<>>

----------------------------------------------------------------------------
(* matchSiteConfig *)

\* JavaScript's undefined, and the SiteConfig objects of the model.
Undefined == [type |-> "undefined"]
DocsConfig == [type |-> "object", configPath |-> "docs.config.js"]
BlogConfig == [type |-> "object", outDir |-> "_blog"]
OverrideChoices == { DocsConfig, BlogConfig }

\* A SiteSpec is a string (the glob) or an array (the glob and a SiteConfig).
StringSpec(g) == [type |-> "string", glob |-> g]
PairSpec(g, c) == [type |-> "array", glob |-> g, cfg |-> c]

\* The globs "*", "a", "a/*", "**" and the sites "a", "o", "a/o", ".a".
GlobChoices == { <<Star>>, <<nA>>, <<nA, Star>>, <<GlobStar>> }
SiteChoices == { <<nA>>, <<nO>>, <<nA, nO>>, <<<<".", "a">>>> }
SiteSpecChoices ==
    { StringSpec(g) : g \in GlobChoices }
        \cup { PairSpec(g, c) : g \in GlobChoices, c \in OverrideChoices }

\* The longest config.sites of the model.
MaxSites == 2

\* const glob = typeof siteSpec === 'string' ? siteSpec : siteSpec[0]
GlobOf(siteSpec) == siteSpec.glob

\* What the body of the loop returns for a SiteSpec that matches: nothing
\* (undefined) for a string, siteSpec[1] for an array.
ReturnFor(siteSpec) == IF siteSpec.type = "string" THEN Undefined ELSE siteSpec.cfg

\* A resolver in which a later match replaces an earlier one.
RECURSIVE matchSiteConfigLast(_, _)
matchSiteConfigLast(specs, site) ==
    IF specs = <<>> THEN Undefined
    ELSE IF minimatch(site, GlobOf(specs[Len(specs)])) THEN ReturnFor(specs[Len(specs)])
    ELSE matchSiteConfigLast(SubSeq(specs, 1, Len(specs) - 1), site)

\* A resolver that answers a value of its own when no SiteSpec matches.
RECURSIVE matchSiteConfigSentinel(_, _)
matchSiteConfigSentinel(specs, site) ==
    IF specs = <<>> THEN [type |-> "string", value |-> "no-match"]
    ELSE IF minimatch(site, GlobOf(Head(specs))) THEN ReturnFor(Head(specs))
    ELSE matchSiteConfigSentinel(Tail(specs), site)

\* matchSiteConfig(config, site), config.sites given as specs: the loop
\* returns at the first match; falling off its end returns undefined.
RECURSIVE matchSiteConfig(_, _)
matchSiteConfig(specs, site) ==
    IF specs = <<>> THEN Undefined
    ELSE IF minimatch(site, GlobOf(Head(specs))) THEN ReturnFor(Head(specs))
    ELSE matchSiteConfig(Tail(specs), site)

\* A call of matchSiteConfig for a site not resolved yet.
MatchSiteConfig ==
    \E site \in SiteChoices :
        /\ site \in DOMAIN resolved
        /\ resolved[site] = None
        /\ resolved' = [resolved EXCEPT ![site] = Some(matchSiteConfig(sites, site))]
        /\ UNCHANGED sites
        /\ UNCHANGED <<findVars, runVars>>

MatchInit ==
    /\ sites \in SeqsUpTo(SiteSpecChoices, MaxSites)
    /\ resolved = [s \in SiteChoices |-> None]

MatchIdle ==
    /\ sites = <<>>
    /\ resolved = <<>>

----------------------------------------------------------------------------
(* runEleventy *)

\* The RunOptions of the model. serve and watch are only tested for truth, so
\* an unset one is FALSE; ignoreGlobal, the paths and the port may be unset.
OptionChoices ==
    [ sourceDir : { "sites/a" },
      configPath : { None, Some("site.config.js") },
      globalConfigPath : { None, Some("global.config.js") },
      ignoreGlobal : { None, Some(FALSE), Some(TRUE) },
      serve : BOOLEAN,
      watch : BOOLEAN,
      port : { None, Some("8080") } ]

\* JavaScript's truth of an optional boolean.
Truthy(o) == o = Some(TRUE)

Call(op, arg) == [op |-> op, arg |-> arg]

\* A choice that falls back to the site's path when no global path is given.
ConfigPathOptionFallback(opts) ==
    IF ~Truthy(opts.ignoreGlobal) /\ opts.globalConfigPath # None
    THEN opts.globalConfigPath
    ELSE opts.configPath

\* configPath: options.ignoreGlobal ? options.configPath : options.globalConfigPath
ConfigPathOption(opts) ==
    IF Truthy(opts.ignoreGlobal) THEN opts.configPath ELSE opts.globalConfigPath

\* A test that forgets ignoreGlobal.
LoadsSiteConfigAlways(opts) == opts.configPath # None

\* !options.ignoreGlobal && options.configPath !== undefined
LoadsSiteConfig(opts) == ~Truthy(opts.ignoreGlobal) /\ opts.configPath # None

\* The constructor and the four setters, in the order of the code.
SetupCalls(opts) ==
    << Call("new Eleventy", Some(opts.sourceDir)),
       Call("setPathPrefix", None),
       Call("setDryRun", None),
       Call("setIncrementalBuild", None),
       Call("setFormats", None) >>

\* The synchronous part of runEleventy: the constructor, the setters, the
\* site's configuration module when it is loaded (it may throw, and then
\* runEleventy throws to its caller), and the call of init.
RunEleventy ==
    /\ pc = "start"
    /\ ctorConfigPath' = ConfigPathOption(options)
    /\ \E hookThrows \in BOOLEAN :
        IF LoadsSiteConfig(options)
        THEN IF hookThrows
             THEN /\ calls' = SetupCalls(options)
                                 \o << Call("require(configPath)", options.configPath) >>
                  /\ thrown' = TRUE
                  /\ pc' = "threw"
                  /\ UNCHANGED initState
             ELSE /\ calls' = SetupCalls(options)
                                 \o << Call("require(configPath)", options.configPath),
                                       Call("init", None) >>
                  /\ initState' = "pending"
                  /\ pc' = "awaitInit"
                  /\ UNCHANGED thrown
        ELSE /\ ~hookThrows
             /\ calls' = SetupCalls(options) \o << Call("init", None) >>
             /\ initState' = "pending"
             /\ pc' = "awaitInit"
             /\ UNCHANGED thrown
    /\ UNCHANGED <<options, watched, watchState, writeState, unhandled>>
    /\ UNCHANGED <<findVars, matchVars>>

\* The generator settles the promise of init. The chain has no rejection
\* handler: a rejection rejects the promise of .then(...), which nobody holds.
InitSettles ==
    /\ pc = "awaitInit"
    /\ initState = "pending"
    /\ \/ /\ initState' = "resolved"
          /\ pc' = "initThen"
          /\ UNCHANGED unhandled
       \/ /\ initState' = "rejected"
          /\ pc' = "done"
          /\ unhandled' = unhandled \cup {"init"}
    /\ UNCHANGED <<options, calls, ctorConfigPath, watched, watchState, writeState, thrown>>
    /\ UNCHANGED <<findVars, matchVars>>

\* A continuation that does not wait for init to resolve.
ContinuationReadyEarly == pc \in {"awaitInit", "initThen"}

\* eleventy.init().then(...): the continuation runs once init has resolved.
ContinuationReady == pc = "initThen" /\ initState = "resolved"

\* eleventy.watch(): asynchronous, it returns a promise.
StartWatch ==
    /\ calls' = Append(calls, Call("watch", None))
    /\ watchState' = "pending"
    /\ pc' = "awaitWatch"
    /\ UNCHANGED writeState

\* A one-shot branch that never calls write.
SkipWrite ==
    /\ pc' = "done"
    /\ UNCHANGED <<calls, watchState, writeState>>

\* eleventy.write(): it may throw (the try block catches it) or return a
\* promise, which the code drops.
StartWrite ==
    /\ calls' = Append(calls, Call("write", None))
    /\ \/ /\ writeState' = "threw"
          /\ pc' = "done"
       \/ /\ writeState' = "pending"
          /\ pc' = "awaitWrite"
    /\ UNCHANGED watchState

\* The continuation of init: watch() when serve or watch is asked for,
\* write() otherwise.
InitThen ==
    /\ ContinuationReady
    /\ watched' = TRUE
    /\ IF options.serve \/ options.watch THEN StartWatch ELSE StartWrite
    /\ UNCHANGED <<options, ctorConfigPath, initState, unhandled, thrown>>
    /\ UNCHANGED <<findVars, matchVars>>

\* The generator settles the promise of watch: a rejection goes to the
\* .catch handler, a fulfilment passes it by.
WatchSettles ==
    /\ pc = "awaitWatch"
    /\ watchState = "pending"
    /\ \/ /\ watchState' = "resolved"
          /\ pc' = "watchThen"
       \/ /\ watchState' = "rejected"
          /\ pc' = "watchCatch"
    /\ UNCHANGED <<options, calls, ctorConfigPath, watched, initState, writeState,
                   unhandled, thrown>>
    /\ UNCHANGED <<findVars, matchVars>>

\* .catch(() => watched = false)
WatchCatch ==
    /\ pc = "watchCatch"
    /\ watched' = FALSE
    /\ pc' = "watchThen"
    /\ UNCHANGED <<options, calls, ctorConfigPath, initState, watchState, writeState,
                   unhandled, thrown>>
    /\ UNCHANGED <<findVars, matchVars>>

\* A test that forgets whether watch succeeded.
ServesAnyway == options.serve

\* options.serve && watched
Serves == options.serve /\ watched

\* The continuation after watch: serve(port), which may throw inside the
\* handler (the promise of this .then is held by nobody), or the notice.
WatchThen ==
    /\ pc = "watchThen"
    /\ IF Serves
       THEN /\ calls' = Append(calls, Call("serve", options.port))
            /\ \/ UNCHANGED unhandled
               \/ unhandled' = unhandled \cup {"serve"}
       ELSE /\ calls' = Append(calls, Call("forceLog", Some(options.sourceDir)))
            /\ UNCHANGED unhandled
    /\ pc' = "done"
    /\ UNCHANGED <<options, ctorConfigPath, watched, initState, watchState, writeState, thrown>>
    /\ UNCHANGED <<findVars, matchVars>>

\* The generator settles the promise of write, which the code dropped.
WriteSettles ==
    /\ pc = "awaitWrite"
    /\ writeState = "pending"
    /\ \/ /\ writeState' = "resolved"
          /\ UNCHANGED unhandled
       \/ /\ writeState' = "rejected"
          /\ unhandled' = unhandled \cup {"write"}
    /\ pc' = "done"
    /\ UNCHANGED <<options, calls, ctorConfigPath, watched, initState, watchState, thrown>>
    /\ UNCHANGED <<findVars, matchVars>>

RunInit ==
    /\ options \in OptionChoices
    /\ pc = "start"
    /\ calls = <<>>
    /\ ctorConfigPath = None
    /\ watched = FALSE
    /\ initState = "none"
    /\ watchState = "none"
    /\ writeState = "none"
    /\ unhandled = {}
    /\ thrown = FALSE

RunIdle ==
    /\ options = [sourceDir |-> "sites/a", configPath |-> None, globalConfigPath |-> None,
                  ignoreGlobal |-> None, serve |-> FALSE, watch |-> FALSE, port |-> None]
    /\ pc = "off"
    /\ calls = <<>>
    /\ ctorConfigPath = None
    /\ watched = FALSE
    /\ initState = "none"
    /\ watchState = "none"
    /\ writeState = "none"
    /\ unhandled = {}
    /\ thrown = FALSE

----------------------------------------------------------------------------
(* Specifications *)

FindNext == FindSites
MatchNext == MatchSiteConfig
RunNext ==
    \/ RunEleventy
    \/ InitSettles
    \/ InitThen
    \/ WatchSettles
    \/ WatchCatch
    \/ WatchThen
    \/ WriteSettles

InitFind == FindInit /\ MatchIdle /\ RunIdle
InitMatch == FindIdle /\ MatchInit /\ RunIdle
InitRun == FindIdle /\ MatchIdle /\ RunInit

\* findSites alone, on every input of the model.
SpecFind == InitFind /\ [][FindNext]_vars

\* matchSiteConfig alone.
SpecMatch == InitMatch /\ [][MatchNext]_vars

\* One invocation of runEleventy.
SpecRun == InitRun /\ [][RunNext]_vars

\* The continuations are jobs of the event loop, which runs every job that is
\* queued; nothing makes the generator settle its promises.
SpecRunFair ==
    /\ SpecRun
    /\ WF_vars(InitThen)
    /\ WF_vars(WatchCatch)
    /\ WF_vars(WatchThen)

Init == InitFind \/ InitMatch \/ InitRun

Next ==
    \/ FindSites
    \/ MatchSiteConfig
    \/ RunEleventy
    \/ InitSettles
    \/ InitThen
    \/ WatchSettles
    \/ WatchCatch
    \/ WatchThen
    \/ WriteSettles

\* The three functions, each from its own initial states.
Spec == Init /\ [][Next]_vars

----------------------------------------------------------------------------
(* Properties of findSites *)

\* p is dir or lies under dir.
Under(dir, p) == IsPrefix(Normalize(dir), Normalize(p))

\* p lies in none of the output, includes and layouts directories.
OutsideAll(cfg, p) ==
    /\ ~Under(cfg.outDir, p)
    /\ (cfg.includesDir # None => ~Under(Get(cfg.includesDir), p))
    /\ (cfg.layoutsDir # None => ~Under(Get(cfg.layoutsDir), p))

Range(seq) == { seq[i] : i \in 1..Len(seq) }
Occurrences(seq, x) == Cardinality({ i \in 1..Len(seq) : seq[i] = x })

\* C1: no element of findSites' result comes from a candidate that is, or
\* lies under, outDir, includesDir (when set) or layoutsDir (when set), and
\* every candidate that lies in none of them is in the result.
C1_NoSiteUnderExcludedDirs ==
    findPc = "returned" =>
        /\ \A k \in 1..Len(resultBases) : OutsideAll(config, resultBases[k])
        /\ \A i \in 1..Len(patterns) :
               \A b \in Range(Candidates(config, patterns[i])) :
                   OutsideAll(config, b) => b \in Range(resultBases)

\* The matches of one pattern that the filter keeps, as findSites returns them.
Survivors(cfg, pattern) ==
    LET kept(b) == ~Filtered(cfg, b)
        bases == SelectSeq(Candidates(cfg, pattern), kept)
    IN  [k \in 1..Len(bases) |-> Relative(cfg.baseDir, bases[k])]

RECURSIVE Concatenation(_, _)
Concatenation(cfg, pats) ==
    IF pats = <<>> THEN <<>>
    ELSE Survivors(cfg, Head(pats)) \o Concatenation(cfg, Tail(pats))

\* C10: findSites' result is the concatenation, in the order of the patterns,
\* of each pattern's surviving matches: a site that k of the patterns match
\* (and the filter keeps) is in the result k times.
C10_NoDeduplication ==
    findPc = "returned" =>
        /\ results = Concatenation(config, patterns)
        /\ \A site \in Range(results) \cup { Relative(config.baseDir, d) : d \in fsDirs } :
               Occurrences(results, site) =
                   Cardinality({ i \in 1..Len(patterns) :
                                   site \in Range(Survivors(config, patterns[i])) })

\* Two different patterns of the call match one site, which is returned twice.
C10_Witness ==
    /\ findPc = "returned"
    /\ Len(patterns) = 2
    /\ patterns[1] # patterns[2]
    /\ \E site \in Range(results) :
           /\ Occurrences(results, site) = 2
           /\ site \in Range(Survivors(config, patterns[1]))
           /\ site \in Range(Survivors(config, patterns[2]))

----------------------------------------------------------------------------
(* Properties of matchSiteConfig *)

\* The indices of the SiteSpecs whose glob matches the site, and the first.
Matching(site) == { i \in 1..Len(sites) : minimatch(site, sites[i].glob) }
FirstMatch(site) == CHOOSE i \in Matching(site) : \A j \in Matching(site) : i <= j

Called(site) == site \in DOMAIN resolved /\ resolved[site] # None

\* C2: when some SiteSpec matches, matchSiteConfig returns what the first
\* matching SiteSpec gives (its own override object for a pair), never the
\* override of a later matching SiteSpec.
C2_FirstMatchWins ==
    \A site \in SiteChoices :
        (Called(site) /\ Matching(site) # {}) =>
            LET first == sites[FirstMatch(site)]
                ret == Get(resolved[site])
            IN  /\ first.type = "array" => ret = first.cfg
                /\ \A j \in Matching(site) :
                       (j > FirstMatch(site) /\ sites[j].type = "array"
                            /\ (first.type = "string" \/ sites[j].cfg # first.cfg))
                           => ret # sites[j].cfg

\* Two pairs with different overrides match a site, which got the first's.
C2_Witness ==
    \E site \in SiteChoices :
        /\ Called(site)
        /\ Cardinality(Matching(site)) = 2
        /\ \A i \in Matching(site) : sites[i].type = "array"
        /\ sites[1].cfg # sites[2].cfg
        /\ resolved[site] = Some(sites[1].cfg)

NoMatch(site) == Matching(site) = {}
FirstIsString(site) == Matching(site) # {} /\ sites[FirstMatch(site)].type = "string"

\* C3 as claimed: the result for a site that no SiteSpec matches differs from
\* the result for a site whose first matching SiteSpec is a bare string.
C3_ThreeOutcomes ==
    \A s1, s2 \in SiteChoices :
        (Called(s1) /\ Called(s2) /\ NoMatch(s1) /\ FirstIsString(s2))
            => resolved[s1] # resolved[s2]

\* C3 as amended: matchSiteConfig returns undefined both when no SiteSpec
\* matches and when the first matching SiteSpec is a bare string, so its
\* results tell two outcomes apart, not three: undefined, or the override
\* object of the first matching pair.
C3_TwoOutcomes ==
    \A site \in SiteChoices :
        Called(site) =>
            /\ (NoMatch(site) \/ FirstIsString(site)) => resolved[site] = Some(Undefined)
            /\ (~NoMatch(site) /\ ~FirstIsString(site)) =>
                   /\ Get(resolved[site]).type = "object"
                   /\ Get(resolved[site]) \in OverrideChoices

\* One site matched by nothing and one matched first by a bare string, both
\* resolved to undefined.
C3_Witness ==
    \E s1, s2 \in SiteChoices :
        /\ Called(s1) /\ Called(s2)
        /\ NoMatch(s1) /\ FirstIsString(s2)
        /\ resolved[s1] = Some(Undefined)
        /\ resolved[s2] = Some(Undefined)

----------------------------------------------------------------------------
(* Properties of runEleventy *)

Started == pc \notin {"off", "start"}
ServeOrWatch == options.serve \/ options.watch
Positions(op) == { i \in 1..Len(calls) : calls[i].op = op }

\* C4 as claimed: the constructor gets globalConfigPath when ignoreGlobal is
\* false or unset and a globalConfigPath is given, and configPath otherwise.
C4_SitePathUnlessGlobal ==
    Started =>
        ctorConfigPath =
            IF ~Truthy(options.ignoreGlobal) /\ options.globalConfigPath # None
            THEN options.globalConfigPath
            ELSE options.configPath

\* C4 as amended: the constructor gets configPath when ignoreGlobal is true,
\* and globalConfigPath when it is false or unset: undefined when no
\* globalConfigPath is given, whatever configPath is.
C4_GlobalPathUnlessIgnored ==
    Started =>
        /\ Truthy(options.ignoreGlobal) => ctorConfigPath = options.configPath
        /\ (~Truthy(options.ignoreGlobal) /\ options.globalConfigPath # None)
               => ctorConfigPath = options.globalConfigPath
        /\ (~Truthy(options.ignoreGlobal) /\ options.globalConfigPath = None)
               => ctorConfigPath = None

\* ignoreGlobal false, no globalConfigPath, a configPath: the constructor got
\* no path.
C4_Witness ==
    /\ Started
    /\ options.ignoreGlobal = Some(FALSE)
    /\ options.globalConfigPath = None
    /\ options.configPath # None
    /\ ctorConfigPath = None

\* The safety part of C5.
C5_Safety ==
    ServeOrWatch =>
        /\ (initState = "resolved" /\ pc # "initThen") => Cardinality(Positions("watch")) = 1
        /\ Cardinality(Positions("watch")) <= 1
        /\ Positions("serve") # {} =>
               /\ options.serve
               /\ watchState = "resolved"
               /\ \A i \in Positions("serve") : calls[i].arg = options.port
        /\ watchState = "rejected" => Positions("serve") = {}
        /\ (watchState = "rejected" /\ pc = "done") =>
               /\ Cardinality(Positions("forceLog")) = 1
               /\ \A i \in Positions("forceLog") : calls[i].arg = Some(options.sourceDir)
        /\ Positions("write") = {}

\* C5: with serve or watch asked for, watch is started once init resolves;
\* serve(port) is called only when serve was asked for and watch has
\* succeeded; when watch fails serve is never called and the notice "Started
\* watching site <sourceDir>" is force-logged; write is never called.
C5_WatchThenServe ==
    /\ []C5_Safety
    /\ (ServeOrWatch /\ initState = "resolved") ~> (Positions("watch") # {})
    /\ (ServeOrWatch /\ watchState = "rejected") ~> (Positions("forceLog") # {})

\* serve asked for, watch failed: the notice, and no serve.
C5_Witness ==
    /\ options.serve
    /\ watchState = "rejected"
    /\ pc = "done"
    /\ Positions("forceLog") # {}
    /\ Positions("serve") = {}

\* The safety part of C6.
C6_Safety ==
    (Started /\ ~ServeOrWatch) =>
        /\ (initState = "resolved" /\ pc # "initThen") => Cardinality(Positions("write")) = 1
        /\ Cardinality(Positions("write")) <= 1
        /\ Positions("watch") = {}
        /\ Positions("serve") = {}
        /\ Positions("forceLog") = {}

\* C6: with neither serve nor watch asked for, write is called exactly once
\* once init resolves, and watch, serve and the notice never occur.
C6_OneShotWrite ==
    /\ []C6_Safety
    /\ (Started /\ ~ServeOrWatch /\ initState = "resolved")
           ~> (Cardinality(Positions("write")) = 1)

\* The one-shot write has been made and has finished.
C6_Witness ==
    /\ ~ServeOrWatch
    /\ pc = "done"
    /\ writeState = "resolved"
    /\ Cardinality(Positions("write")) = 1

\* C7: no error of the asynchronous sequence (of init, watch, serve, write)
\* leaves the promise chain as an uncaught error or an unhandled rejection,
\* and nothing is retried.
C7_ErrorsSwallowed ==
    /\ unhandled = {}
    /\ \A op \in {"init", "watch", "serve", "write"} : Cardinality(Positions(op)) <= 1

\* C8: watch, serve and write are called only after init has resolved (never
\* while it is pending, never after it rejected), and serve or the notice only
\* after the watch step has settled.
C8_AfterInit ==
    /\ (Positions("watch") \cup Positions("serve") \cup Positions("write")) # {}
           => initState = "resolved"
    /\ \A i \in Positions("watch") \cup Positions("serve") \cup Positions("write") :
           \E j \in Positions("init") : j < i
    /\ (Positions("serve") \cup Positions("forceLog")) # {}
           => watchState \in {"resolved", "rejected"}
    /\ \A i \in Positions("serve") \cup Positions("forceLog") :
           \E j \in Positions("watch") : j < i
    /\ pc \in {"watchCatch", "watchThen"} => watchState \in {"resolved", "rejected"}

\* serve has been called: after watch, which came after init.
C8_Witness ==
    /\ Positions("serve") # {}
    /\ initState = "resolved"
    /\ watchState = "resolved"

\* C9: the configuration module at configPath is invoked exactly when
\* ignoreGlobal is false or unset and configPath is present; then it comes
\* right after the constructor and the pathPrefix, dry-run, incremental and
\* format setters, in that order, and before init.
C9_SiteConfigHook ==
    Started =>
        /\ Cardinality(Positions("require(configPath)")) =
               IF ~Truthy(options.ignoreGlobal) /\ options.configPath # None THEN 1 ELSE 0
        /\ Truthy(options.ignoreGlobal) => Positions("require(configPath)") = {}
        /\ [i \in 1..5 |-> calls[i].op] =
               <<"new Eleventy", "setPathPrefix", "setDryRun", "setIncrementalBuild",
                 "setFormats">>
        /\ Positions("require(configPath)") # {} =>
               /\ Positions("require(configPath)") = {6}
               /\ calls[6].arg = options.configPath
               /\ \A i \in Positions("init") : i > 6

\* The module was invoked, and init called after it.
C9_Witness ==
    /\ options.ignoreGlobal = None
    /\ Positions("require(configPath)") = {6}
    /\ Positions("init") = {7}

====
